---- MODULE Spec2Model ----
(***************************************************************************)
(* Model of dovi_tool's general_read_write.rs: the chunked stream reader   *)
(* (DoviReader::read_write_from_io), the NAL dispatcher                    *)
(* (DoviReader::write_nals) and the RPU reorder and flush stage            *)
(* (DoviReader::flush_writer).                                             *)
(*                                                                         *)
(* Bytes are integers.  A NAL unit on the wire is the 3-byte start code    *)
(* 0 0 1, a 2-byte NAL header (type byte = nal_type * 2, then 1) and       *)
(* payload bytes, all >= 10, so a payload never contains a start code.     *)
(* Offsets are 0-based as in the source; TLA+ sequences are 1-based.       *)
(***************************************************************************)
EXTENDS Integers, Sequences, FiniteSets, TLC

\* ------------------------------------------------------------------ bounds
\* Stand-in for chunk_size = 100_000 (and the length of main_buf).
ChunkSize == 8
\* Longest input stream of mixed units, in NAL units (a stream of RPU units
\* alone may be one unit longer).
MaxUnits == 2
\* Largest decoded frame index an input unit carries.
MaxIdx == 1

\* --------------------------------------------------------------- constants
NAL_SEI_PREFIX == 39
NAL_UNSPEC62 == 62
NAL_UNSPEC63 == 63
\* A slice NAL type (TRAIL_R), standing for every type the dispatcher sends to BL.
NAL_TRAIL_R == 1
\* Length of the parser's start code 0 0 1.
HEADER_LEN == 3

OUT_NAL_HEADER == <<0, 0, 0, 1>>

\* sec_buf is half of main_buf (50_000 against 100_000).
SecBufLen == ChunkSize \div 2

\* ------------------------------------------------------------ byte helpers
\* data[from..to) with 0-based offsets, as a Rust slice.
Slice(data, from, to) == SubSeq(data, from + 1, to)

RECURSIVE Flatten(_)
Flatten(ss) == IF ss = <<>> THEN <<>> ELSE Head(ss) \o Flatten(Tail(ss))

Min(a, b) == IF a < b THEN a ELSE b

\* ------------------------------------------------- external collaborators
\* HevcParser::get_offsets: the offsets of every start code 0 0 1 in data,
\* scanning left to right and resuming after each start code found.
RECURSIVE ScanFrom(_, _)
ScanFrom(data, consumed) ==
    IF consumed + HEADER_LEN > Len(data) THEN <<>>
    ELSE IF Slice(data, consumed, consumed + HEADER_LEN) = <<0, 0, 1>>
         THEN <<consumed>> \o ScanFrom(data, consumed + HEADER_LEN)
         ELSE ScanFrom(data, consumed + 1)

get_offsets(data) == ScanFrom(data, 0)

\* The decoded frame index the parser reports for a unit: carried by the
\* unit's first payload byte (0 when the unit has none).
DecodedFrameIndex(bytes) == IF Len(bytes) >= 3 THEN bytes[3] % 10 ELSE 0

\* HevcParser::split_nals: one NalRecord per offset; a unit runs to the next
\* offset, the last one to `last` (or to the end of data when it is `last`).
\* A trailing zero that belongs to a 4-byte start code is trimmed.
NalSize(data, offsets, last, index) ==
    LET offset == offsets[index] IN
    IF offset = last THEN Len(data) - offset
    ELSE LET size == IF index = Len(offsets) THEN last - offset
                     ELSE offsets[index + 1] - offset
         IN IF Slice(data, offset + size - 1, offset + size + 3) = <<0, 0, 0, 1>>
            THEN size - 1 ELSE size

ParseNal(data, offset, size) ==
    LET start == offset + HEADER_LEN
        end_ == offset + size
    IN [nal_type |-> data[start + 1] \div 2,
        start |-> start,
        end |-> end_,
        decoded_frame_index |-> DecodedFrameIndex(Slice(data, start, end_))]

\* Parsing a unit that has no byte after its start code fails.
SplitOk(data, offsets, last) ==
    \A i \in 1..Len(offsets) : NalSize(data, offsets, last, i) > HEADER_LEN

split_nals(data, offsets, last) ==
    [i \in 1..Len(offsets) |-> ParseNal(data, offsets[i], NalSize(data, offsets, last, i))]

\* is_st2094_40_sei: the classifier's verdict on an SEI-prefix unit.
is_st2094_40_sei(bytes) == Len(bytes) >= 3 /\ bytes[3] % 10 = 4

\* convert_encoded_from_opts: keeps the 2-byte NAL header, rewrites the payload.
ConvertOk(bytes) == Len(bytes) >= 3
convert_encoded_from_opts(bytes) ==
    [i \in 1..Len(bytes) |-> IF i <= 2 THEN bytes[i] ELSE bytes[i] + 100]

\* ------------------------------------------------------------- DoviWriter
\* One Option<BufWriter<File>>: `some` is whether the handle is open, `buf` the
\* bytes written so far, `flushed` whether flush() ran after the last write.
Sink(some) == [some |-> some, buf |-> <<>>, flushed |-> FALSE]

SinkNames == {"bl_writer", "el_writer", "rpu_writer", "sl_writer"}

\* DoviWriter::new
NewDoviWriter(bl, el, rpu, sl) ==
    [bl_writer |-> Sink(bl), el_writer |-> Sink(el),
     rpu_writer |-> Sink(rpu), sl_writer |-> Sink(sl)]

\* BufWriter::write_all on the sink named w
write_all(dw, w, bytes) ==
    [dw EXCEPT ![w].buf = @ \o bytes, ![w].flushed = FALSE]

\* ---------------------------------------------------- DoviReader::write_nals
\* The fallible operations of one loop iteration: the SEI classifier, the
\* converter, and the first and second write_all it makes.
FailPoints == {"none", "classify", "convert", "write1", "write2"}

\* The dispatcher's mutable state between two units.
DState(dw, rn, prev) ==
    [dovi_writer |-> dw, rpu_nals |-> rn, previous_rpu_index |-> prev]

\* Outcome of one loop iteration: the state it leaves, how it ended
\* ("ok" = the loop goes on, "err" = `?` returned an error, "panic"), and
\* whether the error was an I/O failure.
Res(s, status, io) == [s |-> s, status |-> status, io_error |-> io]

NalBytes(chunk, nal) == Slice(chunk, nal.start, nal.end)

\* Mutant of DropHdr10Plus: the classifier's verdict is not asked for.
DropHdr10Plus_AnySei(opts, nal, bytes) ==
    opts.drop_hdr10plus /\ nal.nal_type = NAL_SEI_PREFIX

\* The guard of the HDR10+ drop.
DropHdr10Plus(opts, nal, bytes) ==
    opts.drop_hdr10plus /\ nal.nal_type = NAL_SEI_PREFIX /\ is_st2094_40_sei(bytes)

\* Mutant of IsDuplicateRpu: any index not above the last accepted one counts
\* as a duplicate.
IsDuplicateRpu_NotNewer(prev, nal) ==
    prev > 0 /\ nal.nal_type = NAL_UNSPEC62 /\ nal.decoded_frame_index <= prev

\* The guard of the duplicate-RPU skip.
IsDuplicateRpu(prev, nal) ==
    prev > 0 /\ nal.nal_type = NAL_UNSPEC62 /\ nal.decoded_frame_index = prev

\* Mutant of WriteSl: discard_el discards the RPU units as well.
WriteSl_DiscardsRpu(s, opts, nal, bytes, fail) ==
    IF nal.nal_type \in {NAL_UNSPEC62, NAL_UNSPEC63} /\ opts.discard_el
    THEN Res(s, "ok", FALSE)
    ELSE IF fail \in {"write1", "write2", "convert"} THEN Res(s, "err", fail # "convert")
    ELSE Res([s EXCEPT !.dovi_writer =
                 write_all(@, "sl_writer",
                           OUT_NAL_HEADER \o
                             (IF nal.nal_type = NAL_UNSPEC62 /\ opts.mode = "Some"
                              THEN convert_encoded_from_opts(bytes) ELSE bytes))],
             "ok", FALSE)

\* Mutant of WriteSl: an RPU unit is written as it came, converted or not.
WriteSl_PlainRpu(s, opts, nal, bytes, fail) ==
    IF nal.nal_type = NAL_UNSPEC63 /\ opts.discard_el THEN Res(s, "ok", FALSE)
    ELSE IF fail \in {"write1", "write2", "convert"} THEN Res(s, "err", fail # "convert")
    ELSE Res([s EXCEPT !.dovi_writer =
                 write_all(@, "sl_writer", OUT_NAL_HEADER \o bytes)],
             "ok", FALSE)

\* if let Some(sl_writer): the combined single-layer sink takes the unit.
WriteSl(s, opts, nal, bytes, fail) ==
    IF nal.nal_type = NAL_UNSPEC63 /\ opts.discard_el THEN Res(s, "ok", FALSE)
    ELSE IF fail = "write1" THEN Res(s, "err", TRUE)
    ELSE
      LET s1 == [s EXCEPT !.dovi_writer = write_all(@, "sl_writer", OUT_NAL_HEADER)] IN
      IF nal.nal_type = NAL_UNSPEC62 /\ opts.mode = "Some"
      THEN IF fail = "convert" \/ ~ConvertOk(bytes) THEN Res(s1, "err", FALSE)
           ELSE IF fail = "write2" THEN Res(s1, "err", TRUE)
           ELSE Res([s1 EXCEPT !.dovi_writer =
                        write_all(@, "sl_writer", convert_encoded_from_opts(bytes))],
                    "ok", FALSE)
      ELSE IF fail = "write2" THEN Res(s1, "err", TRUE)
           ELSE Res([s1 EXCEPT !.dovi_writer = write_all(@, "sl_writer", bytes)],
                    "ok", FALSE)

\* NAL_UNSPEC63 => the enhancement layer, its 2-byte NAL header stripped.
WriteEl(s, nal, bytes, fail) ==
    IF ~s.dovi_writer.el_writer.some THEN Res(s, "ok", FALSE)
    ELSE IF fail = "write1" THEN Res(s, "err", TRUE)
    ELSE
      LET s1 == [s EXCEPT !.dovi_writer = write_all(@, "el_writer", OUT_NAL_HEADER)] IN
      IF Len(bytes) < 2 THEN Res(s1, "panic", FALSE)
      ELSE IF fail = "write2" THEN Res(s1, "err", TRUE)
      ELSE Res([s1 EXCEPT !.dovi_writer =
                   write_all(@, "el_writer", SubSeq(bytes, 3, Len(bytes)))],
               "ok", FALSE)

\* Mutant of PushRpu: the record takes the unit's decoded frame index.
PushRpu_FrameIndex(s, data) ==
    [s EXCEPT !.rpu_nals = Append(@, [decoded_index |-> DecodedFrameIndex(data),
                                      presentation_number |-> 0,
                                      data |-> SubSeq(data, 3, Len(data))])]

\* self.rpu_nals.push(RpuNal { .. }) with the 2-byte header 0x7C01 removed.
PushRpu(s, data) ==
    [s EXCEPT !.rpu_nals = Append(@, [decoded_index |-> Len(s.rpu_nals),
                                      presentation_number |-> 0,
                                      data |-> SubSeq(data, 3, Len(data))])]

\* The destination of an RPU payload: the RPU buffer, else the EL sink.
RouteRpuData(s1, data, fail) ==
    IF s1.dovi_writer.rpu_writer.some
    THEN IF Len(data) < 2 THEN Res(s1, "panic", FALSE)
         ELSE Res(PushRpu(s1, data), "ok", FALSE)
    ELSE IF s1.dovi_writer.el_writer.some
         THEN IF fail = "write2" THEN Res(s1, "err", TRUE)
              ELSE Res([s1 EXCEPT !.dovi_writer = write_all(@, "el_writer", data)],
                       "ok", FALSE)
         ELSE Res(s1, "ok", FALSE)

\* Mutant of WriteRpu: the start marker goes to the EL sink only when no
\* conversion mode is set.
WriteRpu_MarkerUnlessConverted(s, opts, nal, bytes, fail) ==
    LET s0 == [s EXCEPT !.previous_rpu_index = nal.decoded_frame_index]
        marker == s0.dovi_writer.el_writer.some /\ opts.mode # "Some"
    IN
    IF marker /\ fail = "write1" THEN Res(s0, "err", TRUE)
    ELSE
      LET s1 == IF marker
                THEN [s0 EXCEPT !.dovi_writer = write_all(@, "el_writer", OUT_NAL_HEADER)]
                ELSE s0
      IN IF opts.mode = "Some"
         THEN IF fail = "convert" \/ ~ConvertOk(bytes) THEN Res(s1, "err", FALSE)
              ELSE RouteRpuData(s1, convert_encoded_from_opts(bytes), fail)
         ELSE RouteRpuData(s1, bytes, fail)

\* NAL_UNSPEC62 => the RPU unit.
WriteRpu(s, opts, nal, bytes, fail) ==
    LET s0 == [s EXCEPT !.previous_rpu_index = nal.decoded_frame_index] IN
    IF s0.dovi_writer.el_writer.some /\ fail = "write1" THEN Res(s0, "err", TRUE)
    ELSE
      LET s1 == IF s0.dovi_writer.el_writer.some
                THEN [s0 EXCEPT !.dovi_writer = write_all(@, "el_writer", OUT_NAL_HEADER)]
                ELSE s0
      IN IF opts.mode = "Some"
         THEN IF fail = "convert" \/ ~ConvertOk(bytes) THEN Res(s1, "err", FALSE)
              ELSE RouteRpuData(s1, convert_encoded_from_opts(bytes), fail)
         ELSE RouteRpuData(s1, bytes, fail)

\* Mutant of WriteBl: the start marker is not written.
WriteBl_NoMarker(s, nal, bytes, fail) ==
    IF ~s.dovi_writer.bl_writer.some THEN Res(s, "ok", FALSE)
    ELSE IF fail \in {"write1", "write2"} THEN Res(s, "err", TRUE)
    ELSE Res([s EXCEPT !.dovi_writer = write_all(@, "bl_writer", bytes)], "ok", FALSE)

\* _ => every other unit goes to the base layer.
WriteBl(s, nal, bytes, fail) ==
    IF ~s.dovi_writer.bl_writer.some THEN Res(s, "ok", FALSE)
    ELSE IF fail = "write1" THEN Res(s, "err", TRUE)
    ELSE
      LET s1 == [s EXCEPT !.dovi_writer = write_all(@, "bl_writer", OUT_NAL_HEADER)] IN
      IF fail = "write2" THEN Res(s1, "err", TRUE)
      ELSE Res([s1 EXCEPT !.dovi_writer = write_all(@, "bl_writer", bytes)], "ok", FALSE)

\* match nal.nal_type
RouteByType(s, opts, nal, bytes, fail) ==
    IF nal.nal_type = NAL_UNSPEC63 THEN WriteEl(s, nal, bytes, fail)
    ELSE IF nal.nal_type = NAL_UNSPEC62 THEN WriteRpu(s, opts, nal, bytes, fail)
    ELSE WriteBl(s, nal, bytes, fail)

\* One iteration of `for nal in nals`.
WriteNal(s, opts, chunk, nal, fail) ==
    LET bytes == NalBytes(chunk, nal) IN
    IF opts.drop_hdr10plus /\ nal.nal_type = NAL_SEI_PREFIX /\ fail = "classify"
    THEN Res(s, "err", FALSE)
    ELSE IF DropHdr10Plus(opts, nal, bytes) THEN Res(s, "ok", FALSE)
    ELSE IF IsDuplicateRpu(s.previous_rpu_index, nal) THEN Res(s, "ok", FALSE)
    ELSE IF s.dovi_writer.sl_writer.some THEN WriteSl(s, opts, nal, bytes, fail)
    ELSE RouteByType(s, opts, nal, bytes, fail)

\* -------------------------------------------------- DoviReader::flush_writer
\* The closure of sort_by_cached_key: the presentation number of the first
\* frame whose decoded_number is the record's decoded_index; -1 stands for the
\* closure's panic when there is none.
RECURSIVE FramePosition(_, _, _)
FramePosition(frames, decoded_index, i) ==
    IF i > Len(frames) THEN 0
    ELSE IF frames[i].decoded_number = decoded_index THEN i
    ELSE FramePosition(frames, decoded_index, i + 1)

SortKey(frames, rpu) ==
    LET i == FramePosition(frames, rpu.decoded_index, 1) IN
    IF i > 0 THEN frames[i].presentation_number ELSE -1

\* Mutant of KeyPanics: a record with no frame is given a key and sorted.
KeyPanics_Never(frames, rn) == FALSE

KeyPanics(frames, rn) == \E k \in 1..Len(rn) : SortKey(frames, rn[k]) = -1

\* Mutant of KeyBefore: records of equal key change places.
KeyBefore_Unstable(frames, a, b) == SortKey(frames, a) <= SortKey(frames, b)

\* Whether a goes before b: slice::sort_by_cached_key is a stable sort, so
\* an element moves in front of another only when its key is smaller.
KeyBefore(frames, a, b) == SortKey(frames, a) < SortKey(frames, b)

\* Insert r behind every element it does not go before.
RECURSIVE InsertByKey(_, _, _)
InsertByKey(frames, sorted, r) ==
    IF sorted = <<>> THEN <<r>>
    ELSE LET l == sorted[Len(sorted)] IN
         IF KeyBefore(frames, r, l)
         THEN Append(InsertByKey(frames, SubSeq(sorted, 1, Len(sorted) - 1), r), l)
         ELSE Append(sorted, r)

RECURSIVE SortByCachedKey(_, _)
SortByCachedKey(frames, rn) ==
    IF rn = <<>> THEN <<>>
    ELSE InsertByKey(frames,
                     SortByCachedKey(frames, SubSeq(rn, 1, Len(rn) - 1)),
                     rn[Len(rn)])

\* .iter_mut().enumerate().for_each(|(idx, rpu)| rpu.presentation_number = idx)
SetPresentationNumbers(rn) ==
    [k \in 1..Len(rn) |-> [rn[k] EXCEPT !.presentation_number = k - 1]]

\* ------------------------------------------------------------------- state
VARIABLES
    format,              \* IoFormat of the run: "Raw" or "RawStdin"
    short_reads,         \* whether the source may return fewer bytes than asked
    options,             \* CliOptions: mode, discard_el, drop_hdr10plus
    input,               \* the whole input stream (never changes)
    reader,              \* the bytes the source has not delivered yet
    parser,              \* HevcParser: finished, what ordered_frames() returns, and
                         \* which frame lists it may report (may_report)
    chunk, end, read_bytes,
    nals, nal_i,         \* the units of the current write_nals call, and its loop index
    dovi_writer,
    rpu_nals, previous_rpu_index,
    rpu_i,               \* loop index of flush_writer's write loop
    buffered,            \* rpu_nals as flush_writer found them
    dispatched,          \* every unit write_nals has handled, in order
    io_error,            \* an I/O operation has failed
    pc,                  \* position in read_write_from_io
    result               \* "running", "ok", "err" or "panic"

vars == <<format, short_reads, options, input, reader, parser, chunk, end, read_bytes,
          nals, nal_i, dovi_writer, rpu_nals, previous_rpu_index, rpu_i, buffered,
          dispatched, io_error, pc, result>>

\* ------------------------------------------------------------------ inputs
\* A unit of the input: its type byte and the value its payload carries
\* (the decoded frame index of an RPU, 4 for an ST2094-40 SEI).
RpuUnits == {<<NAL_UNSPEC62 * 2, i>> : i \in 0..MaxIdx}

UnitAlphabet ==
    {<<NAL_TRAIL_R * 2, 0>>, <<NAL_UNSPEC63 * 2, 0>>,
     <<NAL_SEI_PREFIX * 2, 0>>, <<NAL_SEI_PREFIX * 2, 4>>}
    \cup RpuUnits

UnitStreams ==
    UNION {[1..n -> UnitAlphabet] : n \in 0..MaxUnits}
    \cup [1..(MaxUnits + 1) -> RpuUnits]

\* The p-th unit on the wire; its payload byte is unique in the stream.
EncodeUnit(u, p) == <<0, 0, 1, u[1], 1, 10 * p + u[2]>>

Encode(us) == Flatten([p \in 1..Len(us) |-> EncodeUnit(us[p], p)])

\* One longer stream holding every kind of unit, an RPU unit repeated.
TourStream ==
    <<<<NAL_TRAIL_R * 2, 0>>, <<NAL_SEI_PREFIX * 2, 4>>, <<NAL_UNSPEC62 * 2, MaxIdx>>,
      <<NAL_UNSPEC63 * 2, 0>>, <<NAL_SEI_PREFIX * 2, 0>>, <<NAL_UNSPEC62 * 2, MaxIdx>>>>

\* Inputs with bytes in front of the first start code, or with no start code.
JunkStreams ==
    {<<55>>, <<55, 0, 0>>, <<55, 0, 0, 0>>}
    \cup {<<55>> \o Encode(<<u>>) : u \in UnitAlphabet}

\* Frame lists the parser may report: one entry per decoded picture of a set of
\* pictures, each with any presentation number.
FrameNumbers == 0..MaxUnits

RECURSIVE SetToSeq(_)
SetToSeq(S) ==
    IF S = {} THEN <<>>
    ELSE LET x == CHOOSE y \in S : \A z \in S : y <= z IN <<x>> \o SetToSeq(S \ {x})

FrameLists ==
    UNION {
      {[k \in 1..Cardinality(D) |->
          [decoded_number |-> SetToSeq(D)[k], presentation_number |-> f[SetToSeq(D)[k]]]]
        : f \in [D -> FrameNumbers]}
      : D \in SUBSET FrameNumbers}

IdentityFrames ==
    [k \in 1..(MaxUnits + 1) |-> [decoded_number |-> k - 1, presentation_number |-> k - 1]]

AllOptions == [mode : {"None", "Some"}, discard_el : BOOLEAN, drop_hdr10plus : BOOLEAN]

DefaultOptions == [mode |-> "None", discard_el |-> FALSE, drop_hdr10plus |-> FALSE]

\* What the parser may report as ordered_frames() once finished: any frame
\* list, or only the complete one in decode order.
ReportedFrames(may_report) ==
    IF may_report = "any" THEN FrameLists
    ELSE IF may_report = "none_or_complete" THEN {<<>>, IdentityFrames}
    ELSE {IdentityFrames}

\* The sink sets of a run: the combined sink alone or with every other handle
\* open as well, and every set of per-layer sinks.
SinkConfigs ==
    {s \in [bl : BOOLEAN, el : BOOLEAN, rpu : BOOLEAN, sl : BOOLEAN] :
        s.sl => (s.bl = s.el /\ s.el = s.rpu)}

PerLayerSinks == [bl |-> TRUE, el |-> TRUE, rpu |-> TRUE, sl |-> FALSE]

RpuOnlySinks == [bl |-> FALSE, el |-> FALSE, rpu |-> TRUE, sl |-> FALSE]

BlElSinks == [bl |-> TRUE, el |-> TRUE, rpu |-> FALSE, sl |-> FALSE]

\* Streams of slice, EL and RPU units only.
LayerStreams ==
    {us \in UnitStreams : \A p \in 1..Len(us) : us[p][1] # NAL_SEI_PREFIX * 2}

\* The runs explored:
\*  - every sink set and option combination on every unit stream, read from a
\*    file that fills each read;
\*  - every way the source may split its reads, for both source kinds, with
\*    the three per-layer sinks open;
\*  - every frame list the parser may report, with an RPU sink open.
\*  - a parser that may report no frame at all, with no RPU sink open.
Scenarios ==
    [format : {"Raw"}, short : {FALSE}, sinks : SinkConfigs, opts : AllOptions,
     bytes : {Encode(us) : us \in UnitStreams \cup {TourStream}}, frames : {"complete"}]
    \cup
    [format : {"Raw", "RawStdin"}, short : BOOLEAN,
     sinks : {PerLayerSinks},
     opts : {DefaultOptions},
     bytes : {Encode(us) : us \in LayerStreams} \cup JunkStreams,
     frames : {"complete"}]
    \cup
    [format : {"Raw"}, short : {FALSE},
     sinks : {RpuOnlySinks},
     opts : {DefaultOptions},
     bytes : {Encode(us) : us \in LayerStreams},
     frames : {"any"}]
    \cup
    [format : {"Raw"}, short : {FALSE},
     sinks : {BlElSinks},
     opts : {DefaultOptions},
     bytes : {Encode(us) : us \in LayerStreams},
     frames : {"none_or_complete"}]

\* DoviReader::new, DoviWriter::new and the locals of read_write_from_io
Init ==
    \E sc \in Scenarios :
        /\ format = sc.format
        /\ short_reads = sc.short
        /\ options = sc.opts
        /\ input = sc.bytes
        /\ reader = sc.bytes
        /\ parser = [finished |-> FALSE, ordered_frames |-> <<>>, may_report |-> sc.frames]
        /\ dovi_writer = NewDoviWriter(sc.sinks.bl, sc.sinks.el, sc.sinks.rpu, sc.sinks.sl)
        /\ chunk = <<>>
        /\ end = <<>>
        /\ read_bytes = 0
        /\ nals = <<>>
        /\ nal_i = 1
        /\ rpu_nals = <<>>
        /\ previous_rpu_index = 0
        /\ rpu_i = 1
        /\ buffered = <<>>
        /\ dispatched = <<>>
        /\ io_error = FALSE
        /\ pc = "read"
        /\ result = "running"

\* -------------------------------------------- DoviReader::read_write_from_io
\* What one read into a buffer of buflen bytes may return.
ReadCounts(buflen) ==
    IF reader = <<>> THEN {0}
    ELSE IF short_reads THEN 1..Min(buflen, Len(reader))
    ELSE {Min(buflen, Len(reader))}

envVars == <<format, short_reads, options, input>>

\* What the statements after the loop head's read do with the n bytes read.
LoopHead(n) ==
    /\ read_bytes' = n
    /\ reader' = SubSeq(reader, n + 1, Len(reader))
    /\ IF n = 0 /\ end = <<>> /\ chunk = <<>>
       THEN /\ pc' = "finish"
            /\ chunk' = chunk
       ELSE /\ chunk' = chunk \o SubSeq(reader, 1, n)
            /\ pc' = IF format = "RawStdin" THEN "sub_read" ELSE "scan"

\* while let Ok(n) = reader.read(&mut main_buf): the read succeeds.
Read ==
    /\ pc = "read"
    /\ \E n \in ReadCounts(ChunkSize) : LoopHead(n)
    /\ UNCHANGED <<envVars, parser, end, nals, nal_i, dovi_writer, rpu_nals,
                   previous_rpu_index, rpu_i, buffered, dispatched, io_error, result>>

\* while let Ok(n) = ...: the read fails, the pattern does not match and the
\* loop is left.
ReadFails ==
    /\ pc = "read"
    /\ io_error' = TRUE
    /\ pc' = "finish"
    /\ UNCHANGED <<envVars, reader, parser, chunk, end, read_bytes, nals, nal_i,
                   dovi_writer, rpu_nals, previous_rpu_index, rpu_i, buffered,
                   dispatched, result>>

\* One iteration of the RawStdin inner loop: reader.read(&mut sec_buf)?
SubRead ==
    /\ pc = "sub_read"
    /\ \E num \in ReadCounts(SecBufLen) :
         /\ reader' = SubSeq(reader, num + 1, Len(reader))
         /\ IF num > 0
            THEN /\ read_bytes' = read_bytes + num
                 /\ chunk' = chunk \o SubSeq(reader, 1, num)
                 /\ pc' = IF read_bytes + num >= ChunkSize THEN "scan" ELSE "sub_read"
            ELSE /\ pc' = "scan"
                 /\ UNCHANGED <<read_bytes, chunk>>
    /\ UNCHANGED <<envVars, parser, end, nals, nal_i, dovi_writer, rpu_nals,
                   previous_rpu_index, rpu_i, buffered, dispatched, io_error, result>>

\* reader.read(&mut sec_buf)? returns the error to the caller.
SubReadFails ==
    /\ pc = "sub_read"
    /\ io_error' = TRUE
    /\ pc' = "done"
    /\ result' = "err"
    /\ UNCHANGED <<envVars, reader, parser, chunk, end, read_bytes, nals, nal_i,
                   dovi_writer, rpu_nals, previous_rpu_index, rpu_i, buffered,
                   dispatched>>

\* The offset the chunk is processed up to: the last offset, which is popped
\* and held back unless this was a read of fewer than chunk_size bytes.
HoldBack(rb) == rb >= ChunkSize

LastOffset(offsets) == offsets[Len(offsets)]

\* Mutant of KeptOffsets: the last offset is processed as well as held back.
KeptOffsets_NoPop(offsets, rb) == offsets

KeptOffsets(offsets, rb) ==
    IF HoldBack(rb) THEN SubSeq(offsets, 1, Len(offsets) - 1) ELSE offsets

\* parser.get_offsets, the choice of `last`, and parser.split_nals(..)?
Scan ==
    /\ pc = "scan"
    /\ LET offsets == get_offsets(chunk) IN
       IF offsets = <<>>
       THEN /\ pc' = "read"
            /\ UNCHANGED <<end, nals, nal_i, result>>
       ELSE LET last == LastOffset(offsets)
                kept == KeptOffsets(offsets, read_bytes)
            IN /\ end' = IF HoldBack(read_bytes) THEN Slice(chunk, last, Len(chunk)) ELSE end
               /\ IF SplitOk(chunk, kept, last)
                  THEN /\ nals' = split_nals(chunk, kept, last)
                       /\ nal_i' = 1
                       /\ pc' = "write_nals"
                       /\ result' = result
                  ELSE /\ pc' = "done"
                       /\ result' = "err"
                       /\ UNCHANGED <<nals, nal_i>>
    /\ UNCHANGED <<envVars, reader, parser, chunk, read_bytes, dovi_writer, rpu_nals,
                   previous_rpu_index, rpu_i, buffered, dispatched, io_error>>

\* The record kept of a unit handed to write_nals.
Dispatched(nal) ==
    [nal_type |-> nal.nal_type,
     decoded_frame_index |-> nal.decoded_frame_index,
     bytes |-> NalBytes(chunk, nal)]

\* write_nals: one iteration of its loop, on nals[nal_i].
WriteNalStep ==
    /\ pc = "write_nals"
    /\ nal_i <= Len(nals)
    /\ \E fail \in FailPoints :
         LET r == WriteNal(DState(dovi_writer, rpu_nals, previous_rpu_index),
                           options, chunk, nals[nal_i], fail)
         IN /\ dovi_writer' = r.s.dovi_writer
            /\ rpu_nals' = r.s.rpu_nals
            /\ previous_rpu_index' = r.s.previous_rpu_index
            /\ io_error' = (io_error \/ r.io_error)
            /\ IF r.status = "ok"
               THEN /\ nal_i' = nal_i + 1
                    /\ UNCHANGED <<pc, result>>
               ELSE /\ pc' = "done"
                    /\ result' = r.status
                    /\ nal_i' = nal_i
    /\ dispatched' = Append(dispatched, Dispatched(nals[nal_i]))
    /\ UNCHANGED <<envVars, reader, parser, chunk, end, read_bytes, nals, rpu_i, buffered>>

\* write_nals has returned Ok: chunk.clear(), the carry-over becomes the chunk.
\* (`consumed` only drives the progress bar and is left out.)
EndIteration ==
    /\ pc = "write_nals"
    /\ nal_i > Len(nals)
    /\ chunk' = end
    /\ end' = <<>>
    /\ pc' = "read"
    /\ UNCHANGED <<envVars, reader, parser, read_bytes, nals, nal_i, dovi_writer,
                   rpu_nals, previous_rpu_index, rpu_i, buffered, dispatched, io_error,
                   result>>

\* parser.finish(), and the entry of flush_writer.
Finish ==
    /\ pc = "finish"
    /\ \E frames \in ReportedFrames(parser.may_report) :
         parser' = [parser EXCEPT !.finished = TRUE, !.ordered_frames = frames]
    /\ buffered' = rpu_nals
    /\ pc' = "flush_bl"
    /\ UNCHANGED <<envVars, reader, chunk, end, read_bytes, nals, nal_i, dovi_writer,
                   rpu_nals, previous_rpu_index, rpu_i, dispatched, io_error, result>>

\* if let Some(w) = dovi_writer.<sink> { w.flush()? }, then on to `next`.
FlushSink(w, here, next) ==
    /\ pc = here
    /\ \E ok \in BOOLEAN :
         IF ~dovi_writer[w].some
         THEN /\ ok
              /\ pc' = next
              /\ UNCHANGED <<dovi_writer, io_error, result>>
         ELSE IF ok
         THEN /\ dovi_writer' = [dovi_writer EXCEPT ![w].flushed = TRUE]
              /\ pc' = next
              /\ UNCHANGED <<io_error, result>>
         ELSE /\ io_error' = TRUE
              /\ pc' = "done"
              /\ result' = "err"
              /\ UNCHANGED dovi_writer
    /\ UNCHANGED <<envVars, reader, parser, chunk, end, read_bytes, nals, nal_i,
                   rpu_nals, previous_rpu_index, rpu_i, buffered, dispatched>>

FlushBl == FlushSink("bl_writer", "flush_bl", "flush_el")

FlushEl == FlushSink("el_writer", "flush_el", "reorder")

\* Mutant of FramesEmpty: an empty frame list passes the check.
FramesEmpty_Never(frames) == FALSE

\* ensure!(!frames.is_empty(), "No frames parsed!")
FramesEmpty(frames) == Len(frames) = 0

\* The reordering of flush_writer, up to its write loop.
Reorder ==
    /\ pc = "reorder"
    /\ IF ~dovi_writer.rpu_writer.some
       THEN /\ pc' = "done"
            /\ result' = "ok"
            /\ UNCHANGED rpu_nals
       ELSE IF FramesEmpty(parser.ordered_frames)
       THEN /\ pc' = "done"
            /\ result' = "err"
            /\ UNCHANGED rpu_nals
       ELSE IF KeyPanics(parser.ordered_frames, rpu_nals)
       THEN /\ pc' = "done"
            /\ result' = "panic"
            /\ UNCHANGED rpu_nals
       ELSE /\ rpu_nals' = SetPresentationNumbers(
                               SortByCachedKey(parser.ordered_frames, rpu_nals))
            /\ pc' = "write_rpu"
            /\ UNCHANGED result
    /\ rpu_i' = 1
    /\ UNCHANGED <<envVars, reader, parser, chunk, end, read_bytes, nals, nal_i,
                   dovi_writer, previous_rpu_index, buffered, dispatched, io_error>>

\* One iteration of the write loop: the start marker, then the record's data.
WriteRpuRecord ==
    /\ pc = "write_rpu"
    /\ rpu_i <= Len(rpu_nals)
    /\ \E fail \in {"none", "write1", "write2"} :
         LET w1 == write_all(dovi_writer, "rpu_writer", OUT_NAL_HEADER)
             w2 == write_all(w1, "rpu_writer", rpu_nals[rpu_i].data)
         IN IF fail = "none"
            THEN /\ dovi_writer' = w2
                 /\ rpu_i' = rpu_i + 1
                 /\ UNCHANGED <<pc, result, io_error>>
            ELSE /\ dovi_writer' = IF fail = "write1" THEN dovi_writer ELSE w1
                 /\ io_error' = TRUE
                 /\ pc' = "done"
                 /\ result' = "err"
                 /\ UNCHANGED rpu_i
    /\ UNCHANGED <<envVars, reader, parser, chunk, end, read_bytes, nals, nal_i,
                   rpu_nals, previous_rpu_index, buffered, dispatched>>

\* The write loop is over: rpu_writer.flush()?; Ok(())
EndWriteRpu ==
    /\ pc = "write_rpu"
    /\ rpu_i > Len(rpu_nals)
    /\ \E ok \in BOOLEAN :
         IF ok
         THEN /\ dovi_writer' = [dovi_writer EXCEPT !.rpu_writer.flushed = TRUE]
              /\ result' = "ok"
              /\ UNCHANGED io_error
         ELSE /\ io_error' = TRUE
              /\ result' = "err"
              /\ UNCHANGED dovi_writer
    /\ pc' = "done"
    /\ UNCHANGED <<envVars, reader, parser, chunk, end, read_bytes, nals, nal_i,
                   rpu_nals, previous_rpu_index, rpu_i, buffered, dispatched>>

Next ==
    \/ Read
    \/ ReadFails
    \/ SubRead
    \/ SubReadFails
    \/ Scan
    \/ WriteNalStep
    \/ EndIteration
    \/ Finish
    \/ FlushBl
    \/ FlushEl
    \/ Reorder
    \/ WriteRpuRecord
    \/ EndWriteRpu

Spec == Init /\ [][Next]_vars

\* The run is never suspended for ever: every step that can be taken is taken.
FairSpec == Spec /\ WF_vars(Next)

\* ================================================================== claims
\* ------------------------------------------------------- shared vocabulary
IsRpu(u) == u.nal_type = NAL_UNSPEC62
IsEl(u) == u.nal_type = NAL_UNSPEC63
IsSei(u) == u.nal_type = NAL_SEI_PREFIX
IsSt2094(u) == IsSei(u) /\ is_st2094_40_sei(u.bytes)

SinkBufs(dw) == [w \in SinkNames |-> dw[w].buf]

\* The units are still being dispatched and nothing has failed.
Dispatching == ~parser.finished /\ result = "running"

\* The run has returned Ok(()).
Succeeded == pc = "done" /\ result = "ok"

\* A start marker and the unit's bytes, for each unit of us.
RECURSIVE Emitted(_)
Emitted(us) ==
    IF us = <<>> THEN <<>> ELSE OUT_NAL_HEADER \o Head(us).bytes \o Emitted(Tail(us))

\* The dispatcher run on a sequence of units by themselves, nothing failing.
AsNal(u) ==
    [nal_type |-> u.nal_type, start |-> 0, end |-> Len(u.bytes),
     decoded_frame_index |-> u.decoded_frame_index]

RECURSIVE Replay(_, _, _)
Replay(s, opts, us) ==
    IF us = <<>> THEN s
    ELSE Replay(WriteNal(s, opts, Head(us).bytes, AsNal(Head(us)), "none").s,
                opts, Tail(us))

FreshState ==
    DState([w \in SinkNames |-> [dovi_writer[w] EXCEPT !.buf = <<>>, !.flushed = FALSE]],
           <<>>, 0)

\* What the dispatcher's part of the state is compared by.
Outputs(s) == [bufs |-> SinkBufs(s.dovi_writer), rpu_nals |-> s.rpu_nals]

CurrentOutputs == [bufs |-> SinkBufs(dovi_writer), rpu_nals |-> rpu_nals]

\* The records in the order a stable sort by presentation number gives:
\* record i is preceded by the records of smaller key and by the earlier
\* records of equal key.
FrameOf(frames, r) == CHOOSE f \in {frames[k] : k \in 1..Len(frames)} :
                         f.decoded_number = r.decoded_index

HasFrame(frames, r) == \E k \in 1..Len(frames) : frames[k].decoded_number = r.decoded_index

Rank(frames, rn, i) ==
    1 + Cardinality({j \in 1..Len(rn) :
          \/ FrameOf(frames, rn[j]).presentation_number
               < FrameOf(frames, rn[i]).presentation_number
          \/ /\ FrameOf(frames, rn[j]).presentation_number
                  = FrameOf(frames, rn[i]).presentation_number
             /\ j < i})

PresentationOrder(frames, rn) ==
    [k \in 1..Len(rn) |-> rn[CHOOSE i \in 1..Len(rn) : Rank(frames, rn, i) = k]]

RECURSIVE EmittedRecords(_)
EmittedRecords(rn) ==
    IF rn = <<>> THEN <<>>
    ELSE OUT_NAL_HEADER \o Head(rn).data \o EmittedRecords(Tail(rn))

\* ---------------------------------------------------------------------- C1
\* The outputs of a run on the whole input as one chunk read at end of input.
SingleChunkNals ==
    LET offsets == get_offsets(input) IN
    IF offsets = <<>> THEN <<>> ELSE split_nals(input, offsets, LastOffset(offsets))

RECURSIVE RunNals(_, _, _)
RunNals(s, ns, i) ==
    IF i > Len(ns) THEN s
    ELSE RunNals(WriteNal(s, options, input, ns[i], "none").s, ns, i + 1)

SingleChunkBufs ==
    LET s == RunNals(FreshState, SingleChunkNals, 1) IN
    [SinkBufs(s.dovi_writer) EXCEPT
       !["rpu_writer"] = IF s.dovi_writer.rpu_writer.some
                         THEN EmittedRecords(PresentationOrder(parser.ordered_frames,
                                                               s.rpu_nals))
                         ELSE <<>>]

\* C1: chunk-boundary invariance: however the source splits the input into
\* reads, for both source kinds, a run that succeeds with no I/O failure
\* leaves in every sink the bytes that processing the whole input as one chunk
\* leaves there.
C1_ChunkBoundaryInvariance ==
    (Succeeded /\ ~io_error) => SinkBufs(dovi_writer) = SingleChunkBufs

\* ---------------------------------------------------------------------- C2
\* C2: reorder correctness: after a flush that succeeds with an RPU sink, the
\* sink holds each buffered record once, as the start marker and its stored
\* payload, in ascending order of the presentation number of its frame, records
\* of equal presentation number in their buffered order.
C2_ReorderCorrectness ==
    (Succeeded /\ dovi_writer.rpu_writer.some)
      => dovi_writer.rpu_writer.buf
           = EmittedRecords(PresentationOrder(parser.ordered_frames, buffered))

\* Decoded indices 0, 1, 2 with presentation numbers 2, 0, 1 came out in the
\* order 1, 2, 0.
C2_Witness ==
    /\ Succeeded
    /\ dovi_writer.rpu_writer.some
    /\ Len(buffered) = 3
    /\ parser.ordered_frames
         = <<[decoded_number |-> 0, presentation_number |-> 2],
             [decoded_number |-> 1, presentation_number |-> 0],
             [decoded_number |-> 2, presentation_number |-> 1]>>
    /\ dovi_writer.rpu_writer.buf
         = EmittedRecords(<<buffered[2], buffered[3], buffered[1]>>)

\* ---------------------------------------------------------------------- C3
\* The frame index of the most recently accepted RPU unit of the run, -1 when
\* there is none (a discarded duplicate has the index of the accepted one).
RECURSIVE LastRpuIndex(_)
LastRpuIndex(us) ==
    IF us = <<>> THEN -1
    ELSE IF IsRpu(us[Len(us)]) THEN us[Len(us)].decoded_frame_index
    ELSE LastRpuIndex(SubSeq(us, 1, Len(us) - 1))

\* C3: duplicate RPU suppression: an RPU unit whose frame index (0 included)
\* is that of the most recently accepted RPU unit is discarded in every sink
\* configuration: nothing is written and no record is buffered for it.
C3_DuplicateRpuSuppressed ==
    [][(/\ pc = "write_nals"
        /\ nal_i <= Len(nals)
        /\ nals[nal_i].nal_type = NAL_UNSPEC62
        /\ nals[nal_i].decoded_frame_index = LastRpuIndex(dispatched))
       => (SinkBufs(dovi_writer') = SinkBufs(dovi_writer) /\ rpu_nals' = rpu_nals)]_vars

\* ---------------------------------------------------------------------- C4
\* Per-layer mode with a BL sink, no conversion mode and no filters.
PlainPerLayerBl ==
    /\ ~dovi_writer.sl_writer.some
    /\ dovi_writer.bl_writer.some
    /\ options = DefaultOptions

IsBlKind(u) == ~IsEl(u) /\ ~IsRpu(u)

IsOtherKind(u) == ~IsEl(u) /\ ~IsRpu(u) /\ ~IsSei(u)

\* C4 as stated: the BL sink holds exactly the start marker and the bytes of
\* each unit of the "other" kind (not EL, not RPU, not SEI-prefix), in stream
\* order.
C4_BlHoldsOnlyOtherKind ==
    (PlainPerLayerBl /\ result \in {"running", "ok"})
      => dovi_writer.bl_writer.buf = Emitted(SelectSeq(dispatched, IsOtherKind))

\* C4, amended: the BL sink holds exactly the start marker and the unmodified
\* bytes of each unit that is neither an EL nor an RPU unit (the SEI-prefix
\* units included), in stream order, and nothing for any EL or RPU unit.
C4_LayerSeparation ==
    (PlainPerLayerBl /\ result \in {"running", "ok"})
      => dovi_writer.bl_writer.buf = Emitted(SelectSeq(dispatched, IsBlKind))

C4_Witness ==
    /\ PlainPerLayerBl
    /\ Succeeded
    /\ \E i, j, k, l \in 1..Len(dispatched) :
         /\ IsOtherKind(dispatched[i])
         /\ IsSei(dispatched[j])
         /\ IsEl(dispatched[k])
         /\ IsRpu(dispatched[l])
    /\ dovi_writer.bl_writer.buf # <<>>

\* ---------------------------------------------------------------------- C5
MissingFrame(frames, rn) == \E k \in 1..Len(rn) : ~HasFrame(frames, rn[k])

\* The flush has got as far as the reordering.
PastReorder == pc = "write_rpu" \/ (pc = "done" /\ parser.finished)

Touched ==
    {w \in SinkNames : dovi_writer'[w].buf # dovi_writer[w].buf}
    \cup (IF rpu_nals' # rpu_nals THEN {"rpu_writer"} ELSE {})

\* C6: no unit is written to more than one sink: handling one unit adds bytes
\* (or a buffered record) to at most one of the BL, EL, RPU and combined sinks.
C6_AtMostOneSinkPerUnit ==
    [][pc = "write_nals" => Cardinality(Touched) <= 1]_vars

\* ---------------------------------------------------------------------- C7
\* C7: termination: the read loop is eventually left and the parser
\* finalized, or the run has ended.
C7_ReadLoopTerminates == <>(parser.finished \/ pc = "done")

\* ---------------------------------------------------------------------- C8
\* C8: an I/O failure is immediately fatal: once a read or a write has failed
\* the run has ended with an error, and the parser was not finalized after it.
C8_IoFailureIsFatal == io_error => (pc = "done" /\ result = "err")

\* ---------------------------------------------------------------------- C9
\* C9: HDR10+ drop: with drop_hdr10plus set, the sinks and the RPU buffer are
\* what the run without the flag gives on the units that are not ST2094-40 SEI
\* units; without it, they are what the run gives with those units taken for
\* slice units.
AsSlice(u) == IF IsSt2094(u) THEN [u EXCEPT !.nal_type = NAL_TRAIL_R] ELSE u

NotSt2094(u) == ~IsSt2094(u)

C9_Hdr10PlusDrop ==
    Dispatching =>
      IF options.drop_hdr10plus
      THEN CurrentOutputs
             = Outputs(Replay(FreshState, [options EXCEPT !.drop_hdr10plus = FALSE],
                              SelectSeq(dispatched, NotSt2094)))
      ELSE CurrentOutputs
             = Outputs(Replay(FreshState, options,
                              [k \in 1..Len(dispatched) |-> AsSlice(dispatched[k])]))

C9_Witness ==
    /\ Dispatching
    /\ options.drop_hdr10plus
    /\ \E i, j, k \in 1..Len(dispatched) :
         /\ IsSt2094(dispatched[i])
         /\ IsSei(dispatched[j]) /\ ~IsSt2094(dispatched[j])
         /\ IsRpu(dispatched[k])
    /\ dovi_writer.bl_writer.buf # <<>>
    /\ rpu_nals # <<>>

\* --------------------------------------------------------------------- C10
NotEl(u) == ~IsEl(u)

\* C10: single-layer exclusivity: with a combined sink configured, nothing is
\* ever written to the BL, EL and RPU sinks and no record is buffered; and with
\* discard_el the combined sink holds what the run without discard_el gives on
\* the units that are not EL units.
C10_SingleLayerExclusive ==
    dovi_writer.sl_writer.some =>
      /\ dovi_writer.bl_writer.buf = <<>>
      /\ dovi_writer.el_writer.buf = <<>>
      /\ dovi_writer.rpu_writer.buf = <<>>
      /\ rpu_nals = <<>>
      /\ (Dispatching /\ options.discard_el) =>
           dovi_writer.sl_writer.buf
             = Replay(FreshState, [options EXCEPT !.discard_el = FALSE],
                      SelectSeq(dispatched, NotEl)).dovi_writer.sl_writer.buf

C10_Witness ==
    /\ dovi_writer.sl_writer.some
    /\ dovi_writer.bl_writer.some
    /\ dovi_writer.el_writer.some
    /\ dovi_writer.rpu_writer.some
    /\ options.discard_el
    /\ Dispatching
    /\ \E i, j, k \in 1..Len(dispatched) :
         /\ IsEl(dispatched[i])
         /\ IsRpu(dispatched[j])
         /\ IsOtherKind(dispatched[k])
    /\ dovi_writer.sl_writer.buf # <<>>

\* ---------------------------------------------------------------------- C11
\* C11: flush on success: when the run has returned Ok(()), every sink that
\* was opened (BL, EL, RPU and the combined sink) has been flushed after the
\* last write made to it.
C11_FlushedOnSuccess ==
    Succeeded => \A w \in SinkNames : dovi_writer[w].some => dovi_writer[w].flushed

\* ---------------------------------------------------------------------- C12
\* Both flushes before the reordering went through.
FlushedBlEl ==
    \A w \in {"bl_writer", "el_writer"} : dovi_writer[w].some => dovi_writer[w].flushed

\* C12: an empty frame list is fatal: once the parser has reported an empty
\* frame list, a run with an RPU sink writes nothing to it and does not
\* succeed, and flush_writer, its BL and EL flushes done, returns an error
\* however many records are buffered; a run with no RPU sink does not look at
\* the list, and flush_writer returns Ok(()).
C12_EmptyFrameListFatal ==
    (parser.finished /\ parser.ordered_frames = <<>>)
      => /\ dovi_writer.rpu_writer.some
              => /\ dovi_writer.rpu_writer.buf = <<>>
                 /\ result # "ok"
                 /\ pc # "write_rpu"
         /\ (pc = "done" /\ FlushedBlEl)
              => result = IF dovi_writer.rpu_writer.some THEN "err" ELSE "ok"

\* flush_writer has failed on an empty frame list with a record buffered and
\* no I/O failure.
C12_Witness ==
    /\ pc = "done"
    /\ parser.finished
    /\ parser.ordered_frames = <<>>
    /\ dovi_writer.rpu_writer.some
    /\ Len(buffered) >= 1
    /\ ~io_error
    /\ result = "err"

\* With no RPU sink the run on an empty frame list has succeeded.
C12_WitnessNoRpuSink ==
    /\ Succeeded
    /\ parser.ordered_frames = <<>>
    /\ ~dovi_writer.rpu_writer.some
    /\ dispatched # <<>>

\* ---------------------------------------------------------------------- C13
\* write_nals is about to handle an RPU unit that is no duplicate of the most
\* recently accepted one, in per-layer mode with an EL sink and no RPU sink.
RpuToElCase ==
    /\ pc = "write_nals"
    /\ nal_i <= Len(nals)
    /\ nals[nal_i].nal_type = NAL_UNSPEC62
    /\ nals[nal_i].decoded_frame_index # LastRpuIndex(dispatched)
    /\ ~dovi_writer.sl_writer.some
    /\ ~dovi_writer.rpu_writer.some
    /\ dovi_writer.el_writer.some

\* The unit in hand has been handled and the loop goes on.
UnitHandled == nal_i' = nal_i + 1

\* The payload of the RPU unit in hand, header intact, converted when a
\* conversion mode is set.
RpuPayload ==
    LET bytes == NalBytes(chunk, nals[nal_i]) IN
    IF options.mode = "Some" THEN convert_encoded_from_opts(bytes) ELSE bytes

\* C13 as stated: an accepted RPU unit routed to the EL sink adds the start
\* marker and the payload when no conversion mode is set, and exactly the
\* converter's output, with no start marker, when one is set.
C13_MarkerOnlyUnconverted ==
    [][(RpuToElCase /\ UnitHandled)
       => dovi_writer'.el_writer.buf
            = dovi_writer.el_writer.buf
                \o (IF options.mode = "Some" THEN <<>> ELSE OUT_NAL_HEADER)
                \o RpuPayload]_vars

\* C13, amended: an accepted RPU unit routed to the EL sink adds the 4-byte
\* start marker followed by the header-intact payload, which is the
\* converter's output when a conversion mode is set and the original bytes
\* otherwise; the marker is written in both cases, and no other sink changes.
C13_RpuRoutedToEl ==
    [][(RpuToElCase /\ UnitHandled)
       => /\ dovi_writer'.el_writer.buf
               = dovi_writer.el_writer.buf \o OUT_NAL_HEADER \o RpuPayload
          /\ dovi_writer'.bl_writer.buf = dovi_writer.bl_writer.buf
          /\ rpu_nals' = rpu_nals]_vars

\* One RPU unit has been converted and written to the EL sink behind a start
\* marker.
C13_Witness ==
    /\ Len(dispatched) = 1
    /\ IsRpu(dispatched[1])
    /\ options.mode = "Some"
    /\ ~dovi_writer.sl_writer.some
    /\ ~dovi_writer.rpu_writer.some
    /\ dovi_writer.el_writer.buf
         = OUT_NAL_HEADER \o convert_encoded_from_opts(dispatched[1].bytes)

\* ---------------------------------------------------------------------- C14
\* The bytes the step in hand adds to sink w.
Added(w) ==
    SubSeq(dovi_writer'[w].buf, Len(dovi_writer[w].buf) + 1, Len(dovi_writer'[w].buf))

\* Nothing, or a start marker followed by a payload.
CompleteEmission(bytes) ==
    \/ bytes = <<>>
    \/ /\ Len(bytes) > Len(OUT_NAL_HEADER)
       /\ SubSeq(bytes, 1, Len(OUT_NAL_HEADER)) = OUT_NAL_HEADER

\* The step in hand ends write_nals with an error that is no I/O failure on
\* an RPU unit: the converter has failed.
ConverterFailed ==
    /\ nals[nal_i].nal_type = NAL_UNSPEC62
    /\ result' = "err"
    /\ io_error' = io_error

\* C14: per-unit writes are all-or-nothing: whether the handling of a unit
\* returns normally or with an error, what it has added to each sink is
\* nothing or a start marker followed by the payload, and when the converter
\* fails on an RPU unit it has added no byte to any sink.
C14_UnitWritesAllOrNothing ==
    [][(pc = "write_nals" /\ nal_i <= Len(nals))
       => /\ \A w \in SinkNames : CompleteEmission(Added(w))
          /\ ConverterFailed => SinkBufs(dovi_writer') = SinkBufs(dovi_writer)]_vars

\* ---------------------------------------------------------------------- C15
\* The source has delivered all its bytes and none is left in the chunk or in
\* the carry-over: the loop was left at the end of the input.
ReaderExhausted == reader = <<>> /\ chunk = <<>> /\ end = <<>>

\* C15: deferred RPU emission: the RPU sink holds a byte only when the
\* reader has signalled exhaustion, the parser has been finalized and the BL
\* and EL sinks, if present, have been flushed; and once the parser has been
\* finalized the run is in flush_writer or over, where no unit is dispatched.
C15_DeferredRpuEmission ==
    /\ dovi_writer.rpu_writer.buf # <<>>
         => (ReaderExhausted /\ parser.finished /\ FlushedBlEl)
    /\ parser.finished
         => pc \in {"flush_bl", "flush_el", "reorder", "write_rpu", "done"}

\* ---------------------------------------------------------------------- C16
\* A unit of the chunk with its start code in front.
UnitWithStartCode(nal) == Slice(chunk, nal.start - HEADER_LEN, nal.end)

\* The bytes of nals[1..n], start codes included, one after the other.
UnitsUpTo(n) == Flatten([k \in 1..n |-> UnitWithStartCode(nals[k])])

\* The units of this write_nals call handed over so far are the last records
\* of dispatched, once each and in order.
HandedOverOnce ==
    /\ Len(dispatched) >= nal_i - 1
    /\ \A k \in 1..(nal_i - 1) :
         dispatched[Len(dispatched) - (nal_i - 1) + k].bytes = NalBytes(chunk, nals[k])

\* While write_nals runs on a chunk, in hold-back mode.
CarryOverHeld ==
    LET offsets == get_offsets(chunk)
        last == LastOffset(offsets)
    IN /\ end = Slice(chunk, last, Len(chunk))
       /\ get_offsets(end) = <<0>>
       /\ UnitsUpTo(Len(nals)) = Slice(chunk, offsets[1], last)
       /\ HandedOverOnce

\* C16: the carry-over invariant: while the units of a chunk are dispatched,
\* the carry-over is the chunk from its last boundary offset to its end and
\* has no boundary but the one at its first byte, and the units handed to the
\* dispatcher, once each, are the bytes from the first boundary to the held-
\* back one; outside of that the carry-over is empty, the chunk at the loop
\* head holds no complete unit, and the carry-over becomes, unchanged, the
\* front of the next chunk.
C16_CarryOverInvariant ==
    /\ [](/\ (pc = "write_nals" /\ HoldBack(read_bytes)) => CarryOverHeld
          /\ (pc = "write_nals" /\ ~HoldBack(read_bytes)) => (end = <<>> /\ HandedOverOnce)
          /\ pc \in {"read", "sub_read", "scan"} => end = <<>>
          /\ pc = "read" => get_offsets(chunk) \in {<<>>, <<0>>})
    /\ [][(pc = "write_nals" /\ pc' = "read") => chunk' = end]_vars
    /\ [][(pc \in {"read", "sub_read"} /\ pc' \in {"sub_read", "scan"})
            => SubSeq(chunk', 1, Len(chunk)) = chunk]_vars

\* A unit of the chunk has been dispatched while the unit behind it is held
\* back.
C16_Witness ==
    /\ pc = "write_nals"
    /\ HoldBack(read_bytes)
    /\ nal_i > 1
    /\ Len(end) > HEADER_LEN
    /\ end # chunk

\* ---------------------------------------------------------------------- C17
\* A unit survives to the combined sink unless the HDR10+ rule or discard_el
\* drops it.
SlSurvives(u) ==
    /\ ~(options.drop_hdr10plus /\ IsSt2094(u))
    /\ ~(options.discard_el /\ IsEl(u))

\* What the combined sink gets behind the start marker.
SlPayload(u) ==
    IF IsRpu(u) /\ options.mode = "Some" THEN convert_encoded_from_opts(u.bytes)
    ELSE u.bytes

RECURSIVE SlContent(_)
SlContent(us) ==
    IF us = <<>> THEN <<>>
    ELSE (IF SlSurvives(Head(us)) THEN OUT_NAL_HEADER \o SlPayload(Head(us)) ELSE <<>>)
           \o SlContent(Tail(us))

RepeatedOlderIndex ==
    /\ pc = "write_nals"
    /\ nal_i <= Len(nals)
    /\ nals[nal_i].nal_type = NAL_UNSPEC62
    /\ nals[nal_i].decoded_frame_index # LastRpuIndex(dispatched)
    /\ \E k \in 1..Len(dispatched) :
         /\ IsRpu(dispatched[k])
         /\ dispatched[k].decoded_frame_index = nals[nal_i].decoded_frame_index

\* The unit in hand is routed as a first RPU unit is: written to the combined
\* sink, else buffered for the RPU sink, else written to the EL sink.
RoutedAsFirstRpu ==
    IF dovi_writer.sl_writer.some
    THEN dovi_writer'.sl_writer.buf
           = dovi_writer.sl_writer.buf \o OUT_NAL_HEADER \o RpuPayload
    ELSE IF dovi_writer.rpu_writer.some
    THEN /\ Len(rpu_nals') = Len(rpu_nals) + 1
         /\ rpu_nals'[Len(rpu_nals')].data = SubSeq(RpuPayload, 3, Len(RpuPayload))
    ELSE dovi_writer.el_writer.some
           => dovi_writer'.el_writer.buf
                = dovi_writer.el_writer.buf \o OUT_NAL_HEADER \o RpuPayload

Positional(rn) == \A k \in 1..Len(rn) : rn[k].decoded_index = k - 1

\* Some value of 0..n-1 is the decoded_number of no frame entry.
IndexWithoutFrame(frames, n) ==
    \E v \in 0..(n - 1) : \A k \in 1..Len(frames) : frames[k].decoded_number # v

\* flush_writer has gone through its sort, or was stopped in it or behind it.
SortAttempted ==
    /\ dovi_writer.rpu_writer.some
    /\ PastReorder
    /\ FlushedBlEl
    /\ parser.ordered_frames # <<>>

====
